---- MODULE Spec2Model ----
(***************************************************************************)
(* lastfmq: the paginated collector of similar artists (sequential and     *)
(* concurrent), the top-level run, the attribute matcher and the page      *)
(* extractors of src/lastfmq.go, as state machines.                        *)
(*                                                                         *)
(* Strings of the program are sequences of symbols (<<>> is ""), so that   *)
(* strings.Contains, strings.ReplaceAll and friends are computed, not      *)
(* assumed.                                                                *)
(***************************************************************************)
EXTENDS Integers, Sequences, FiniteSets, TLC

\* ------------------------------------------------------------------ bounds
\* largest page number (pages + offset) explored
MaxLast == 3
\* largest -workers value explored
MaxWorkers == 2
\* most attributes on the tag handed to containsAttr
MaxAttrs == 2
\* most rules handed to containsAttr
MaxRules == 2
\* most tokens in the body of the overview page
MaxOvTokens == 5
\* most tokens in the body of the tags page
MaxTgTokens == 8
\* most tokens in the body of the wiki page
MaxWkTokens == 7

\* ------------------------------------------------------- program constants
pageSize == 10
\* capacity of errC: make(chan error, 1)
errCCap == 1

VARIABLES
    \* flags and the remote site, as the collectors see them
    pages, offset, workersNum, server,
    \* readSimilarArtistsAsync
    pageCount, wg, errC, wpc, wPage, wVal, waiterPc, callerPc,
    errs, ret, retSize, asyncRet, asyncErr, outCClosed, fetched,
    \* readSimilarArtists
    seqPc, seqI, seqRet, seqErr, seqFetched,
    \* one call of containsAttr: the current tag, the rules, the result
    caPc, caTagName, caAttrs, caRules, caResult,
    \* the command line: band name and stage flags
    bandName, wiki, tags, similarArtists, events,
    \* main
    mainPc, bandDesc, stagesRun, emitted, exitCode,
    \* readOverview: position, response status, tokens left in the body and
    \* consumed, the token the loop body last ran on, locals, results
    ovPc, ovStatus, ovLeft, ovConsumed, ovTok, startMetadata, dt, intAbbr, ovRet, ovErr,
    \* readTags: position, tokens left in the body and consumed, locals,
    \* results, the kinds of target list closed so far, and the structure of
    \* the document as far as it has been read
    tgPc, tgLeft, tgConsumed, startTags, startSimilar, numEntites,
    tgTags, tgSimilar, tgErr, closedKinds, tgDoc,
    \* readWiki: position, tokens left in the body, the token the loop of the
    \* Members section or of the biography section last ran on, locals, the
    \* fields of the result, the locals of the biography section, whether
    \* the result is nil, the error, and the
    \* structure of the document as far as it has been read
    wkPc, wkLeft, wkTok, startWiki, wikiMembers, wikiBio, wikiRefs,
    bio, refsSeen, quote, br, ref, wkNil, wkErr, wkDoc

inputVars == <<pages, offset, workersNum, server>>
asyncVars == <<pageCount, wg, errC, wpc, wPage, wVal, waiterPc, callerPc,
               errs, ret, retSize, asyncRet, asyncErr, outCClosed, fetched>>
seqVars == <<seqPc, seqI, seqRet, seqErr, seqFetched>>
caVars == <<caPc, caTagName, caAttrs, caRules, caResult>>
flagVars == <<bandName, wiki, tags, similarArtists, events>>
mainVars == <<mainPc, bandDesc, stagesRun, emitted, exitCode>>
ovVars == <<ovPc, ovStatus, ovLeft, ovConsumed, ovTok, startMetadata, dt, intAbbr,
            ovRet, ovErr>>
tgVars == <<tgPc, tgLeft, tgConsumed, startTags, startSimilar, numEntites,
            tgTags, tgSimilar, tgErr, closedKinds, tgDoc>>
wkVars == <<wkPc, wkLeft, wkTok, startWiki, wikiMembers, wikiBio, wikiRefs,
            bio, refsSeen, quote, br, ref, wkNil, wkErr, wkDoc>>
vars == <<inputVars, asyncVars, seqVars, caVars, flagVars, mainVars, ovVars, tgVars,
          wkVars>>
\* what the actions of one component leave alone
asyncOthers == <<inputVars, seqVars, caVars, flagVars, mainVars, ovVars, tgVars,
    wkVars>>
seqOthers == <<inputVars, asyncVars, caVars, flagVars, mainVars, ovVars, tgVars,
    wkVars>>
caOthers == <<inputVars, asyncVars, seqVars, flagVars, mainVars, ovVars, tgVars,
    wkVars>>
mainOthers == <<inputVars, asyncVars, seqVars, caVars, flagVars, ovVars, tgVars,
    wkVars>>
ovOthers == <<inputVars, asyncVars, seqVars, caVars, flagVars, mainVars, tgVars,
    wkVars>>
wkOthers == <<inputVars, asyncVars, seqVars, caVars, flagVars, mainVars, ovVars,
    tgVars>>
tgOthers == <<inputVars, asyncVars, seqVars, caVars, flagVars, mainVars, ovVars,
    wkVars>>

\* ------------------------------------------------------------ the site
\* no error (Go's nil error)
NoErr == [msg |-> "", page |-> 0]
\* a nil slice and a non-nil slice holding list
NilList == [isNil |-> TRUE, list |-> <<>>]
List(l) == [isNil |-> FALSE, list |-> l]
\* the zero value of a buffer entry (Go's "")
Blank == <<0, 0>>
\* the i-th artist name of listing page n
Artist(n, i) == <<n, i>>

\* what the site answers to the request of one listing page: "error" (the
\* transport fails, the status is not 200 or the body does not tokenize),
\* "redirect" (the request was redirected to another page number: overflow),
\* or "ok" with a list of n links
Responses ==
    {[kind |-> k, n |-> 0] : k \in {"error", "redirect"}}
        \cup {[kind |-> "ok", n |-> k] : k \in {1, pageSize}}

\* readSimilarArtistsPage: the (list, error) pair for page pageNum
ReadSimilarArtistsPage(resp, pageNum) ==
    CASE resp.kind = "error" ->
            [err |-> [msg |-> "read_similar_artists: page", page |-> pageNum],
             artists |-> NilList]
      [] resp.kind = "redirect" ->
            [err |-> NoErr, artists |-> NilList]
      [] OTHER ->
            [err |-> NoErr,
             artists |-> IF resp.n = 0 THEN NilList
                         ELSE List([i \in 1..resp.n |-> Artist(pageNum, i)])]

\* a worker's locals similar, err before the first fetch and after a handoff
NoVal == [err |-> NoErr, artists |-> NilList]

\* fmt.Errorf("read_similar_artists: %v", err)
WrapErr(e) == [msg |-> "read_similar_artists: wrapped", page |-> e.page]

InputInit ==
    /\ pages \in 1..MaxLast
    /\ offset \in 0..(MaxLast - pages)
    /\ workersNum \in 1..MaxWorkers
    /\ server \in [1..(pages + offset) -> Responses]

\* ------------------------------------------- readSimilarArtistsAsync
Workers == 1..workersNum

AsyncInit ==
    /\ pageCount = 0
    /\ wg = workersNum
    /\ errC = <<>>
    /\ wpc = [w \in Workers |-> "claim"]
    /\ wPage = [w \in Workers |-> 0]
    /\ wVal = [w \in Workers |-> NoVal]
    /\ waiterPc = "wait"
    /\ callerPc = "select"
    /\ errs = <<>>
    /\ ret = [i \in 1..(pageSize * pages) |-> Blank]
    /\ retSize = 0
    /\ asyncRet = NilList
    /\ asyncErr = NoErr
    /\ outCClosed = FALSE
    /\ fetched = [n \in 1..(pages + offset) |-> 0]

\* the process is alive: a panic of the caller ends every goroutine
Alive == callerPc # "panic"

\* WorkerClaim with a claim that hands out the last page number again
\* (a counter read that is not one atomic add)
WorkerClaimStale(w) ==
    /\ Alive
    /\ wpc[w] = "claim"
    /\ pageCount' = pageCount + 1
    /\ wPage' = [wPage EXCEPT ![w] = IF pageCount = 0 THEN 1 ELSE pageCount]
    /\ wpc' = [wpc EXCEPT ![w] =
                  IF pageCount + 1 <= pages + offset THEN "fetch" ELSE "exit"]
    /\ UNCHANGED <<wg, errC, wVal, waiterPc, callerPc, errs, ret, retSize,
                   asyncRet, asyncErr, outCClosed, fetched>>
    /\ UNCHANGED asyncOthers

\* pageNum := int(pageCount.Add(1)); pageNum <= pages+offset
WorkerClaim(w) ==
    /\ Alive
    /\ wpc[w] = "claim"
    /\ pageCount' = pageCount + 1
    /\ wPage' = [wPage EXCEPT ![w] = pageCount + 1]
    /\ wpc' = [wpc EXCEPT ![w] =
                  IF pageCount + 1 <= pages + offset THEN "fetch" ELSE "exit"]
    /\ UNCHANGED <<wg, errC, wVal, waiterPc, callerPc, errs, ret, retSize,
                   asyncRet, asyncErr, outCClosed, fetched>>
    /\ UNCHANGED asyncOthers

\* WorkerFetch with an empty result that also ends the claiming of the other
\* workers (the counter is pushed past the last page)
WorkerFetchStopAll(w) ==
    /\ Alive
    /\ wpc[w] = "fetch"
    /\ LET r == ReadSimilarArtistsPage(server[wPage[w]], wPage[w]) IN
        /\ wVal' = [wVal EXCEPT ![w] = r]
        /\ wpc' = [wpc EXCEPT ![w] =
                      IF r.err # NoErr THEN "sendErr"
                      ELSE IF Len(r.artists.list) = 0 THEN "exit"
                      ELSE "sendOut"]
        /\ pageCount' = IF r.err = NoErr /\ Len(r.artists.list) = 0
                         THEN pages + offset + 1 ELSE pageCount
    /\ fetched' = [fetched EXCEPT ![wPage[w]] = @ + 1]
    /\ UNCHANGED <<wg, errC, wPage, waiterPc, callerPc, errs, ret,
                   retSize, asyncRet, asyncErr, outCClosed>>
    /\ UNCHANGED asyncOthers

\* similar, err := readSimilarArtistsPage(ctx, bandName, pageNum)
WorkerFetch(w) ==
    /\ Alive
    /\ wpc[w] = "fetch"
    /\ LET r == ReadSimilarArtistsPage(server[wPage[w]], wPage[w]) IN
        /\ wVal' = [wVal EXCEPT ![w] = r]
        /\ wpc' = [wpc EXCEPT ![w] =
                      IF r.err # NoErr THEN "sendErr"
                      ELSE IF Len(r.artists.list) = 0 THEN "exit"
                      ELSE "sendOut"]
    /\ fetched' = [fetched EXCEPT ![wPage[w]] = @ + 1]
    /\ UNCHANGED <<pageCount, wg, errC, wPage, waiterPc, callerPc, errs, ret,
                   retSize, asyncRet, asyncErr, outCClosed>>
    /\ UNCHANGED asyncOthers

\* WorkerSendErr with a worker that ends after handing over its error
\* (return in place of continue)
WorkerSendErrExit(w) ==
    /\ Alive
    /\ wpc[w] = "sendErr"
    /\ Len(errC) < errCCap
    /\ errC' = Append(errC, wVal[w].err)
    /\ wpc' = [wpc EXCEPT ![w] = "exit"]
    /\ wVal' = [wVal EXCEPT ![w] = NoVal]
    /\ UNCHANGED <<pageCount, wg, wPage, waiterPc, callerPc, errs, ret,
                   retSize, asyncRet, asyncErr, outCClosed, fetched>>
    /\ UNCHANGED asyncOthers

\* errC <- err; continue
WorkerSendErr(w) ==
    /\ Alive
    /\ wpc[w] = "sendErr"
    /\ Len(errC) < errCCap
    /\ errC' = Append(errC, wVal[w].err)
    /\ wpc' = [wpc EXCEPT ![w] = "claim"]
    /\ wVal' = [wVal EXCEPT ![w] = NoVal]
    /\ UNCHANGED <<pageCount, wg, wPage, waiterPc, callerPc, errs, ret,
                   retSize, asyncRet, asyncErr, outCClosed, fetched>>
    /\ UNCHANGED asyncOthers

\* defer wg.Done()
WorkerExit(w) ==
    /\ Alive
    /\ wpc[w] = "exit"
    /\ wg' = wg - 1
    /\ wpc' = [wpc EXCEPT ![w] = "done"]
    /\ UNCHANGED <<pageCount, errC, wPage, wVal, waiterPc, callerPc, errs, ret,
                   retSize, asyncRet, asyncErr, outCClosed, fetched>>
    /\ UNCHANGED asyncOthers

\* WaiterWait with a wait that ends when the first worker is done
WaiterWaitAny ==
    /\ Alive
    /\ waiterPc = "wait"
    /\ wg < workersNum
    /\ waiterPc' = "send"
    /\ UNCHANGED <<pageCount, wg, errC, wpc, wPage, wVal, callerPc, errs, ret,
                   retSize, asyncRet, asyncErr, outCClosed, fetched>>
    /\ UNCHANGED asyncOthers

\* wg.Wait() of the goroutine that raises the completion signal
WaiterWait ==
    /\ Alive
    /\ waiterPc = "wait"
    /\ wg = 0
    /\ waiterPc' = "send"
    /\ UNCHANGED <<pageCount, wg, errC, wpc, wPage, wVal, callerPc, errs, ret,
                   retSize, asyncRet, asyncErr, outCClosed, fetched>>
    /\ UNCHANGED asyncOthers

\* case <-doneC: break loop   (rendezvous with doneC <- struct{}{})
CallerRecvDone ==
    /\ callerPc = "select"
    /\ waiterPc = "send"
    /\ waiterPc' = "done"
    /\ callerPc' = "check"
    /\ UNCHANGED <<pageCount, wg, errC, wpc, wPage, wVal, errs, ret, retSize,
                   asyncRet, asyncErr, outCClosed, fetched>>
    /\ UNCHANGED asyncOthers

\* case err := <-errC: errs = append(errs, err)
CallerRecvErr ==
    /\ callerPc = "select"
    /\ Len(errC) > 0
    /\ errs' = Append(errs, Head(errC))
    /\ errC' = Tail(errC)
    /\ UNCHANGED <<pageCount, wg, wpc, wPage, wVal, waiterPc, callerPc, ret,
                   retSize, asyncRet, asyncErr, outCClosed, fetched>>
    /\ UNCHANGED asyncOthers

\* copy(dst, src) into ret[lo:hi] (0-based, hi exclusive)
CopyInto(buf, lo, hi, src) ==
    [i \in 1..Len(buf) |->
        IF i > lo /\ i <= hi /\ i - lo <= Len(src) THEN src[i - lo] ELSE buf[i]]

\* CallerRecvOut with a receipt that releases the worker and merges nothing
CallerRecvOutDrop(w) ==
    /\ callerPc = "select"
    /\ wpc[w] = "sendOut"
    /\ wpc' = [wpc EXCEPT ![w] = "claim"]
    /\ wVal' = [wVal EXCEPT ![w] = NoVal]
    /\ UNCHANGED <<pageCount, wg, errC, wPage, waiterPc, errs, callerPc, ret,
                   retSize, asyncRet, asyncErr, outCClosed, fetched>>
    /\ UNCHANGED asyncOthers

\* case val := <-outC   (rendezvous with outC <- outValue{pageNum, similar});
\* the slice expression ret[lo:hi] panics when hi > cap(ret)
CallerRecvOut(w) ==
    /\ callerPc = "select"
    /\ wpc[w] = "sendOut"
    /\ wpc' = [wpc EXCEPT ![w] = "claim"]
    /\ retSize' = retSize + Len(wVal[w].artists.list)
    /\ IF wPage[w] * pageSize > Len(ret)
       THEN /\ callerPc' = "panic"
            /\ ret' = ret
       ELSE /\ callerPc' = callerPc
            /\ ret' = CopyInto(ret, (wPage[w] - 1) * pageSize, wPage[w] * pageSize,
                               wVal[w].artists.list)
    /\ wVal' = [wVal EXCEPT ![w] = NoVal]
    /\ UNCHANGED <<pageCount, wg, errC, wPage, waiterPc, errs,
                   asyncRet, asyncErr, outCClosed, fetched>>
    /\ UNCHANGED asyncOthers

\* if len(errs) > 0 { return nil, ... errs[0] }; return ret[:retSize], nil
\* and the deferred close(outC)
CallerReturn ==
    /\ callerPc = "check"
    /\ IF Len(errs) > 0
       THEN /\ asyncRet' = NilList
            /\ asyncErr' = WrapErr(errs[1])
            /\ callerPc' = "returned"
       ELSE IF retSize > Len(ret)
       THEN /\ callerPc' = "panic"
            /\ UNCHANGED <<asyncRet, asyncErr>>
       ELSE /\ asyncRet' = List(SubSeq(ret, 1, retSize))
            /\ asyncErr' = NoErr
            /\ callerPc' = "returned"
    /\ outCClosed' = TRUE
    /\ UNCHANGED <<pageCount, wg, errC, wpc, wPage, wVal, waiterPc, errs, ret,
                   retSize, fetched>>
    /\ UNCHANGED asyncOthers

NextAsync ==
    \/ \E w \in Workers : WorkerClaim(w)
    \/ \E w \in Workers : WorkerFetch(w)
    \/ \E w \in Workers : WorkerSendErr(w)
    \/ \E w \in Workers : WorkerExit(w)
    \/ WaiterWait
    \/ CallerRecvDone
    \/ CallerRecvErr
    \/ \E w \in Workers : CallerRecvOut(w)
    \/ CallerReturn

\* ------------------------------------------------- readSimilarArtists
SeqInit ==
    /\ seqPc = "loop"
    /\ seqI = 1 + offset
    /\ seqRet = List(<<>>)
    /\ seqErr = NoErr
    /\ seqFetched = <<>>

SeqIdle ==
    /\ seqPc = "idle"
    /\ seqI = 0
    /\ seqRet = NilList
    /\ seqErr = NoErr
    /\ seqFetched = <<>>

\* SeqStep with the bug of returning, beside the error, the pages read so far
SeqStepPartial ==
    /\ seqPc = "loop"
    /\ seqI <= pages + offset
    /\ LET r == ReadSimilarArtistsPage(server[seqI], seqI) IN
        IF r.err # NoErr
        THEN /\ seqRet' = seqRet
             /\ seqErr' = WrapErr(r.err)
             /\ seqPc' = "returned"
             /\ seqI' = seqI
        ELSE /\ seqRet' = List(seqRet.list \o r.artists.list)
             /\ seqErr' = NoErr
             /\ seqPc' = "loop"
             /\ seqI' = seqI + 1
    /\ seqFetched' = Append(seqFetched, seqI)
    /\ UNCHANGED seqOthers

\* SeqStep with the bug of ending the loop at the first empty page
SeqStepStopOnEmpty ==
    /\ seqPc = "loop"
    /\ seqI <= pages + offset
    /\ LET r == ReadSimilarArtistsPage(server[seqI], seqI) IN
        IF r.err # NoErr
        THEN /\ seqRet' = NilList
             /\ seqErr' = WrapErr(r.err)
             /\ seqPc' = "returned"
             /\ seqI' = seqI
        ELSE /\ seqRet' = List(seqRet.list \o r.artists.list)
             /\ seqErr' = NoErr
             /\ seqPc' = IF Len(r.artists.list) = 0 THEN "returned" ELSE "loop"
             /\ seqI' = seqI + 1
    /\ seqFetched' = Append(seqFetched, seqI)
    /\ UNCHANGED seqOthers

\* one iteration of: for i := 1 + offset; i <= pages+offset; i++
SeqStep ==
    /\ seqPc = "loop"
    /\ seqI <= pages + offset
    /\ LET r == ReadSimilarArtistsPage(server[seqI], seqI) IN
        IF r.err # NoErr
        THEN /\ seqRet' = NilList
             /\ seqErr' = WrapErr(r.err)
             /\ seqPc' = "returned"
             /\ seqI' = seqI
        ELSE /\ seqRet' = List(seqRet.list \o r.artists.list)
             /\ seqErr' = NoErr
             /\ seqPc' = "loop"
             /\ seqI' = seqI + 1
    /\ seqFetched' = Append(seqFetched, seqI)
    /\ UNCHANGED seqOthers

\* return ret, nil
SeqReturn ==
    /\ seqPc = "loop"
    /\ seqI > pages + offset
    /\ seqPc' = "returned"
    /\ UNCHANGED <<seqI, seqRet, seqErr, seqFetched>>
    /\ UNCHANGED seqOthers

\* readSimilarArtists as a function of the site: the loop from page i on
RECURSIVE SeqCollect(_, _, _, _)
SeqCollect(srv, i, last, acc) ==
    IF i > last THEN [ret |-> List(acc), err |-> NoErr]
    ELSE LET r == ReadSimilarArtistsPage(srv[i], i) IN
         IF r.err # NoErr THEN [ret |-> NilList, err |-> WrapErr(r.err)]
         ELSE SeqCollect(srv, i + 1, last, acc \o r.artists.list)

ReadSimilarArtists(srv, p, o) == SeqCollect(srv, 1 + o, p + o, <<>>).ret

NextSeq == SeqStep \/ SeqReturn

\* --------------------------------------------------------- containsAttr
\* a one-symbol string
S(x) == <<x>>
\* the wildcard accepted value "*"
Star == S("*")

\* TagAttr(tagName, attrName, attrVals...)
TagAttr(tagName, attrName, attrVals) ==
    [tagName |-> tagName, attrName |-> attrName, attrVals |-> attrVals]

\* strings.Contains(s, sub)
Contains(s, sub) ==
    \E i \in 0..(Len(s) - Len(sub)) : SubSeq(s, i + 1, i + Len(sub)) = sub

\* for _, attrVal := range tagAttr.attrVals: the first one val contains
RECURSIVE FirstContained(_, _, _)
FirstContained(val, attrVals, k) ==
    IF k > Len(attrVals) THEN [found |-> FALSE, val |-> <<>>]
    ELSE IF Contains(val, attrVals[k]) THEN [found |-> TRUE, val |-> attrVals[k]]
    ELSE FirstContained(val, attrVals, k + 1)

\* for iter.Next() { ... }: the attributes from the j-th on against one rule
RECURSIVE MatchAttrs(_, _, _)
MatchAttrs(attrs, rule, j) ==
    IF j > Len(attrs) THEN [found |-> FALSE, val |-> <<>>]
    ELSE IF attrs[j].key # rule.attrName THEN MatchAttrs(attrs, rule, j + 1)
    ELSE IF Len(rule.attrVals) = 0 THEN [found |-> TRUE, val |-> rule.attrName]
    ELSE IF rule.attrVals[1] = Star THEN [found |-> TRUE, val |-> attrs[j].val]
    ELSE LET c == FirstContained(attrs[j].val, rule.attrVals, 1) IN
         IF c.found THEN c ELSE MatchAttrs(attrs, rule, j + 1)

\* for _, tagAttr := range tagAttrs { ... }: the rules from the i-th on;
\* hasAttr of tokenizer.TagName() is: the tag has attributes
RECURSIVE ContainsAttrFrom(_, _, _, _)
ContainsAttrFrom(tagName, attrs, tagAttrs, i) ==
    IF i > Len(tagAttrs) THEN <<>>
    ELSE IF tagAttrs[i].tagName # tagName
         THEN ContainsAttrFrom(tagName, attrs, tagAttrs, i + 1)
    ELSE IF tagAttrs[i].attrName = <<>> THEN tagAttrs[i].tagName
    ELSE IF Len(attrs) = 0 THEN <<>>
    ELSE LET m == MatchAttrs(attrs, tagAttrs[i], 1) IN
         IF m.found THEN m.val
         ELSE ContainsAttrFrom(tagName, attrs, tagAttrs, i + 1)

ContainsAttr(tagName, attrs, tagAttrs) == ContainsAttrFrom(tagName, attrs, tagAttrs, 1)

\* the sequences over set of length at most n
SeqsUpTo(set, n) == UNION {[1..k -> set] : k \in 0..n}

\* the tags and rules one call is tried on
CaTagNames == {S("ol"), S("a")}
CaKeys == {S("class"), S("title")}
CaVals == {<<>>, <<"x">>, <<"y">>, <<"x", "y">>}
CaAttrs == [key : CaKeys, val : CaVals]
CaAttrVals == {<<>>, <<Star>>, <<S("x")>>, <<S("y")>>, <<S("y"), S("x")>>,
               <<<<"x", "y">>>>}
CaRuleSet ==
    {TagAttr(t, <<>>, <<>>) : t \in CaTagNames}
        \cup {TagAttr(t, k, v) : t \in CaTagNames, k \in CaKeys, v \in CaAttrVals}

CaInit ==
    /\ caPc = "call"
    /\ caTagName \in CaTagNames
    /\ caAttrs \in SeqsUpTo(CaAttrs, MaxAttrs)
    /\ caRules \in SeqsUpTo(CaRuleSet, MaxRules)
    /\ caResult = <<>>

CaIdle ==
    /\ caPc = "idle"
    /\ caTagName = <<>>
    /\ caAttrs = <<>>
    /\ caRules = <<>>
    /\ caResult = <<>>

\* containsAttr(tokenizer, tagAttrs...)
CaCall ==
    /\ caPc = "call"
    /\ caResult' = ContainsAttr(caTagName, caAttrs, caRules)
    /\ caPc' = "done"
    /\ UNCHANGED <<caTagName, caAttrs, caRules>>
    /\ UNCHANGED caOthers

NextAttr == CaCall

\* ----------------------------------------------------------------- main
\* var bandDesc *bandDesc before readOverview has returned one
NilDesc == [isNil |-> TRUE, fields |-> {}]

FlagInit ==
    /\ bandName \in {<<>>, S("Fugazi")}
    /\ wiki \in BOOLEAN
    /\ tags \in BOOLEAN
    /\ similarArtists \in BOOLEAN
    /\ events \in BOOLEAN

FlagIdle ==
    /\ bandName = <<>>
    /\ wiki = FALSE
    /\ tags = FALSE
    /\ similarArtists = FALSE
    /\ events = FALSE

MainInit ==
    /\ mainPc = "start"
    /\ bandDesc = NilDesc
    /\ stagesRun = <<>>
    /\ emitted = FALSE
    /\ exitCode = 0

MainIdle ==
    /\ mainPc = "idle"
    /\ bandDesc = NilDesc
    /\ stagesRun = <<>>
    /\ emitted = FALSE
    /\ exitCode = 0

\* fmt.Fprintln(os.Stderr, err); os.Exit(1)
Exit1 ==
    /\ mainPc' = "exited"
    /\ exitCode' = 1
    /\ UNCHANGED <<bandDesc, emitted>>

\* if bandName == "" { ...; os.Exit(1) }
MainStart ==
    /\ mainPc = "start"
    /\ IF bandName = <<>>
       THEN Exit1
       ELSE /\ mainPc' = "overview"
            /\ UNCHANGED <<bandDesc, emitted, exitCode>>
    /\ UNCHANGED stagesRun
    /\ UNCHANGED mainOthers

\* one stage: if requested { if field, err = fn(...); err != nil { exit } },
\* outcome being how the call of fn ends
Stage(here, next, requested, name, fn, fields, outcome) ==
    /\ mainPc = here
    /\ IF ~requested
       THEN /\ mainPc' = next
            /\ UNCHANGED <<bandDesc, stagesRun, emitted, exitCode>>
       ELSE /\ stagesRun' = Append(stagesRun, [stage |-> name, fn |-> fn,
                                               ok |-> (outcome = "ok")])
            /\ CASE outcome = "ok" ->
                      /\ mainPc' = next
                      /\ bandDesc' = [isNil |-> FALSE,
                                      fields |-> bandDesc.fields \cup fields]
                      /\ UNCHANGED <<emitted, exitCode>>
                 [] outcome = "err" -> Exit1
                 [] OTHER ->
                      /\ mainPc' = "panicked"
                      /\ exitCode' = 2
                      /\ UNCHANGED <<bandDesc, emitted>>
    /\ UNCHANGED mainOthers

\* Stage with the bug of going on to the next stage after a failure
StageNoExit(here, next, requested, name, fn, fields, outcome) ==
    /\ mainPc = here
    /\ IF ~requested
       THEN /\ mainPc' = next
            /\ UNCHANGED <<bandDesc, stagesRun, emitted, exitCode>>
       ELSE /\ stagesRun' = Append(stagesRun, [stage |-> name, fn |-> fn,
                                               ok |-> (outcome = "ok")])
            /\ mainPc' = next
            /\ bandDesc' = [isNil |-> FALSE, fields |-> bandDesc.fields \cup fields]
            /\ UNCHANGED <<emitted, exitCode>>
    /\ UNCHANGED mainOthers

\* bandDesc, err = readOverview(context.TODO(), bandName)
MainOverview ==
    \E outcome \in {"ok", "err"} :
        Stage("overview", "wiki", TRUE, "Overview", "readOverview",
              {"BandName", "Scrobbles", "Listeners"}, outcome)

\* if wiki { bandDesc.Wiki, err = readWiki(...) }
MainWiki ==
    \E outcome \in {"ok", "err"} :
        Stage("wiki", "tags", wiki, "Wiki", "readWiki", {"Wiki"}, outcome)

\* MainTags with the bug of not exiting when readTags fails
MainTagsNoExit ==
    \E outcome \in {"ok", "err"} :
        StageNoExit("tags", "similar", tags, "Tags", "readTags",
                    {"Tags", "SimilarArtists"}, outcome)

\* if tags { bandDesc.Tags, bandDesc.SimilarArtists, err = readTags(bandName) }
MainTags ==
    \E outcome \in {"ok", "err"} :
        Stage("tags", "similar", tags, "Tags", "readTags",
              {"Tags", "SimilarArtists"}, outcome)

\* if similarArtists { ... }: readSimilarArtistsAsync when workersNum > 1,
\* which may also end in a runtime panic
MainSimilar ==
    \E outcome \in {"ok", "err", "panic"} :
        /\ outcome = "panic" => workersNum > 1
        /\ Stage("similar", "events", similarArtists, "SimilarArtists",
                 IF workersNum > 1 THEN "readSimilarArtistsAsync"
                 ELSE "readSimilarArtists",
                 {"SimilarArtists"}, outcome)

\* if events { bandDesc.Years, err = readEventYears(...) }
MainEvents ==
    \E outcome \in {"ok", "err"} :
        Stage("events", "encode", events, "EventYears", "readEventYears",
              {"Years"}, outcome)

\* json.NewEncoder(os.Stdout).Encode(bandDesc)
MainEncode ==
    /\ mainPc = "encode"
    /\ \E ok \in BOOLEAN :
        IF ok
        THEN /\ emitted' = TRUE
             /\ mainPc' = "done"
             /\ UNCHANGED <<bandDesc, exitCode>>
        ELSE Exit1
    /\ UNCHANGED stagesRun
    /\ UNCHANGED mainOthers

NextMain ==
    \/ MainStart
    \/ MainOverview
    \/ MainWiki
    \/ MainTags
    \/ MainSimilar
    \/ MainEvents
    \/ MainEncode

\* ------------------------------------------------------------- tokens
\* the events of html.Tokenizer: a start tag, an end tag, a text, any other
\* token (comment, doctype, self-closing tag), and the error token that ends
\* the stream
StartTag(tag, attrs) == [type |-> "StartTag", tag |-> tag, attrs |-> attrs, text |-> <<>>]
EndTag(tag) == [type |-> "EndTag", tag |-> tag, attrs |-> <<>>, text |-> <<>>]
Text(t) == [type |-> "Text", tag |-> <<>>, attrs |-> <<>>, text |-> t]
OtherToken == [type |-> "Other", tag |-> <<>>, attrs |-> <<>>, text |-> <<>>]
ErrorToken == [type |-> "Error", tag |-> <<>>, attrs |-> <<>>, text |-> <<>>]
\* before the first call of tokenizer.Next()
NoToken == [type |-> "None", tag |-> <<>>, attrs |-> <<>>, text |-> <<>>]
Attr(key, val) == [key |-> key, val |-> val]

\* strings.TrimSpace
RECURSIVE TrimLeft(_)
TrimLeft(t) == IF t # <<>> /\ Head(t) \in {" ", "\n"} THEN TrimLeft(Tail(t)) ELSE t
RECURSIVE TrimRight(_)
TrimRight(t) ==
    IF t # <<>> /\ t[Len(t)] \in {" ", "\n"} THEN TrimRight(SubSeq(t, 1, Len(t) - 1)) ELSE t
TrimSpace(t) == TrimRight(TrimLeft(t))

\* strings.ReplaceAll(t, old, "") for a one-character old
RemoveAll(t, old) == SelectSeq(t, LAMBDA c : c # old)

\* strconv.Atoi, the value being 0 when it returns an error
Digits == <<"0", "1", "2", "3", "4", "5", "6", "7", "8", "9">>
IsDigit(c) == \E d \in 1..10 : Digits[d] = c
DigitVal(c) == (CHOOSE d \in 1..10 : Digits[d] = c) - 1
RECURSIVE DecVal(_)
DecVal(t) == IF t = <<>> THEN 0 ELSE 10 * DecVal(SubSeq(t, 1, Len(t) - 1)) + DigitVal(t[Len(t)])
Atoi(t) ==
    LET signed == t # <<>> /\ Head(t) \in {"+", "-"}
        body == IF signed THEN Tail(t) ELSE t
    IN IF body = <<>> \/ \E i \in 1..Len(body) : ~IsDigit(body[i]) THEN 0
       ELSE IF signed /\ Head(t) = "-" THEN 0 - DecVal(body)
       ELSE DecVal(body)

\* --------------------------------------------------------- readOverview
\* ret := &bandDesc{}
EmptyDesc ==
    [isNil |-> FALSE, BandName |-> <<>>, Scrobbles |-> 0, Listeners |-> 0,
     YearsActive |-> <<>>, FoundedIn |-> <<>>, Born |-> <<>>, BornIn |-> <<>>]
\* the nil *bandDesc returned beside an error
NilOverview == [EmptyDesc EXCEPT !.isNil = TRUE]

\* the errors of readOverview
ErrBandRequired == [msg |-> "read_overview: band name is required", page |-> 0]
ErrHttpGet == [msg |-> "read_overview: http_get", page |-> 0]
ErrNotFound == [msg |-> "read_overview: band not found", page |-> 0]
ErrStatus == [msg |-> "read_overview: status", page |-> 0]
ErrOvTokenizer == [msg |-> "read_overview: tokenizer", page |-> 0]

\* the status codes the site answers with (200 aside, one of each kind)
StatusOK == 200
StatusNotFound == 404
OvStatuses == {StatusOK, StatusNotFound, 500, 403}

\* the tokens an overview body is made of
OvTitles == {<<"1", ",", "2", "3", "4">>, <<"7">>, <<"x">>, <<>>,
             S("catalogue-metadata")}
OvTexts == {S("Scrobbles"), <<" ", "Listeners", " ">>, S("Years Active"), S("Fugazi")}
OvTokens ==
    {StartTag(S("dl"), <<Attr(S("class"), S("catalogue-metadata"))>>),
     EndTag(S("dl")), StartTag(S("dt"), <<>>), StartTag(S("dd"), <<>>),
     StartTag(S("h1"), <<Attr(S("class"), S("header-new-title"))>>),
     StartTag(S("h4"), <<Attr(S("class"), S("header-metadata-tnew-title"))>>),
     OtherToken}
        \cup {StartTag(S("abbr"), <<Attr(S("title"), t)>>) : t \in OvTitles}
        \cup {Text(t) : t \in OvTexts}

OvInit ==
    /\ ovPc = "start"
    /\ ovStatus = 0
    /\ ovLeft = 0
    /\ ovConsumed = 0
    /\ ovTok = NoToken
    /\ startMetadata = FALSE
    /\ dt = <<>>
    /\ intAbbr = <<>>
    /\ ovRet = NilOverview
    /\ ovErr = NoErr

OvIdle ==
    /\ ovPc = "idle"
    /\ ovStatus = 0
    /\ ovLeft = 0
    /\ ovConsumed = 0
    /\ ovTok = NoToken
    /\ startMetadata = FALSE
    /\ dt = <<>>
    /\ intAbbr = <<>>
    /\ ovRet = NilOverview
    /\ ovErr = NoErr

\* return nil, err
OvFail(err) ==
    /\ ovPc' = "returned"
    /\ ovRet' = NilOverview
    /\ ovErr' = err
    /\ UNCHANGED <<ovLeft, ovConsumed, ovTok, startMetadata, dt, intAbbr>>

\* OvRequest with the bug of reporting 404 like any other status
OvRequestNo404 ==
    /\ ovPc = "start"
    /\ IF bandName = <<>>
       THEN OvFail(ErrBandRequired) /\ UNCHANGED ovStatus
       ELSE \E sent \in BOOLEAN :
            IF ~sent
            THEN OvFail(ErrHttpGet) /\ UNCHANGED ovStatus
            ELSE \E status \in OvStatuses, n \in 0..MaxOvTokens :
                 /\ ovStatus' = status
                 /\ IF status # StatusOK
                    THEN OvFail(ErrStatus)
                    ELSE /\ ovPc' = "tokens"
                         /\ ovRet' = EmptyDesc
                         /\ ovLeft' = n
                         /\ UNCHANGED <<ovConsumed, ovTok, startMetadata, dt, intAbbr, ovErr>>
    /\ UNCHANGED ovOthers

\* the entry of readOverview up to the status check: the band name check,
\* defaultClient.Do(req) failing or answering with a status and a body of n
\* tokens
OvRequest ==
    /\ ovPc = "start"
    /\ IF bandName = <<>>
       THEN OvFail(ErrBandRequired) /\ UNCHANGED ovStatus
       ELSE \E sent \in BOOLEAN :
            IF ~sent
            THEN OvFail(ErrHttpGet) /\ UNCHANGED ovStatus
            ELSE \E status \in OvStatuses, n \in 0..MaxOvTokens :
                 /\ ovStatus' = status
                 /\ IF status # StatusOK
                    THEN IF status = StatusNotFound
                         THEN OvFail(ErrNotFound)
                         ELSE OvFail(ErrStatus)
                    ELSE /\ ovPc' = "tokens"
                         /\ ovRet' = EmptyDesc
                         /\ ovLeft' = n
                         /\ UNCHANGED <<ovConsumed, ovTok, startMetadata, dt, intAbbr, ovErr>>
    /\ UNCHANGED ovOthers

\* one iteration of the token loop on token tok, nxt being the token after
\* it: the locals after it and the number of tokens it consumed
OvApply(st, tok, nxt) ==
    LET one(new) == [st |-> new, used |-> 1]
        two(new) == [st |-> IF nxt.type = "Text" THEN new ELSE st, used |-> 2]
    IN
    CASE tok.type = "EndTag" ->
            IF st.startMetadata
               /\ ContainsAttr(tok.tag, tok.attrs, <<TagAttr(S("dl"), <<>>, <<>>)>>) # <<>>
            THEN one([st EXCEPT !.startMetadata = FALSE])
            ELSE one(st)
      [] tok.type = "StartTag" /\ st.startMetadata ->
            LET c == ContainsAttr(tok.tag, tok.attrs,
                                  <<TagAttr(S("dt"), <<>>, <<>>), TagAttr(S("dd"), <<>>, <<>>)>>)
            IN CASE c = S("dt") -> two([st EXCEPT !.dt = nxt.text])
                 [] c = S("dd") ->
                      CASE st.dt = S("Years Active") ->
                              two([st EXCEPT !.ret.YearsActive = nxt.text])
                        [] st.dt = S("Founded In") ->
                              two([st EXCEPT !.ret.FoundedIn = nxt.text])
                        [] st.dt = S("Born") -> two([st EXCEPT !.ret.Born = nxt.text])
                        [] st.dt = S("Born In") -> two([st EXCEPT !.ret.BornIn = nxt.text])
                        [] OTHER -> two(st)
                 [] OTHER -> one(st)
      [] tok.type = "StartTag" /\ ~st.startMetadata ->
            LET attr == ContainsAttr(tok.tag, tok.attrs,
                           <<TagAttr(S("dl"), S("class"), <<S("catalogue-metadata")>>),
                             TagAttr(S("h1"), S("class"), <<S("header-new-title")>>),
                             TagAttr(S("abbr"), S("title"), <<Star>>),
                             TagAttr(S("h4"), S("class"), <<S("header-metadata-tnew-title")>>)>>)
            IN CASE attr = S("catalogue-metadata") ->
                      one([st EXCEPT !.startMetadata = TRUE])
                 [] attr = S("header-new-title") ->
                      two([st EXCEPT !.ret.BandName = nxt.text])
                 [] attr = S("header-metadata-tnew-title") ->
                      two([st EXCEPT !.intAbbr = TrimSpace(nxt.text)])
                 [] attr = <<>> -> one(st)
                 [] OTHER ->
                      CASE st.intAbbr = S("Scrobbles") ->
                              one([st EXCEPT !.ret.Scrobbles = Atoi(RemoveAll(attr, ","))])
                        [] st.intAbbr = S("Listeners") ->
                              one([st EXCEPT !.ret.Listeners = Atoi(RemoveAll(attr, ","))])
                        [] OTHER -> one(st)
      [] OTHER -> one(st)

\* for tok := tokenizer.Next(); tokenizer.Err() == nil; tok = tokenizer.Next():
\* one iteration; a lookahead past the end of the body reads the error token
OvStep ==
    /\ ovPc = "tokens"
    /\ ovLeft > 0
    /\ \E tok \in OvTokens, nxt \in IF ovLeft >= 2 THEN OvTokens ELSE {ErrorToken} :
        LET r == OvApply([startMetadata |-> startMetadata, dt |-> dt,
                          intAbbr |-> intAbbr, ret |-> ovRet], tok, nxt)
            used == IF r.used > ovLeft THEN ovLeft ELSE r.used
        IN /\ startMetadata' = r.st.startMetadata
           /\ dt' = r.st.dt
           /\ intAbbr' = r.st.intAbbr
           /\ ovRet' = r.st.ret
           /\ ovLeft' = ovLeft - used
           /\ ovConsumed' = ovConsumed + used
           /\ ovTok' = tok
    /\ UNCHANGED <<ovPc, ovStatus, ovErr>>
    /\ UNCHANGED ovOthers

\* the end of the body: io.EOF, or another tokenizer error
OvEnd ==
    /\ ovPc = "tokens"
    /\ ovLeft = 0
    /\ \E eof \in BOOLEAN :
        IF eof
        THEN /\ ovPc' = "returned"
             /\ UNCHANGED <<ovRet, ovErr, ovLeft, ovConsumed, ovTok, startMetadata, dt,
                            intAbbr>>
        ELSE OvFail(ErrOvTokenizer)
    /\ UNCHANGED ovStatus
    /\ UNCHANGED ovOthers

NextOverview == OvRequest \/ OvStep \/ OvEnd

\* -------------------------------------------------------------- readTags
\* numEntites := 3
NumEntitesInit == 3

ErrTgBandRequired == [msg |-> "read_tags: band name is required", page |-> 0]
ErrTgHttpGet == [msg |-> "read_tags: http_get", page |-> 0]
ErrTgStatus == [msg |-> "read_tags: status", page |-> 0]
ErrTgTokenizer == [msg |-> "read_tags: tokenizer", page |-> 0]

\* the tokens a tags body is made of
TgTexts == {S("rock"), S("punk")}
TgTokens ==
    {StartTag(S("ol"), <<Attr(S("class"), <<"big-tags", " ", "buffer">>)>>),
     StartTag(S("ol"), <<Attr(S("class"), S("similar-items-sidebar"))>>),
     StartTag(S("ol"), <<>>),
     EndTag(S("ol")), EndTag(S("a")),
     StartTag(S("a"), <<Attr(S("class"), S("link-block-target"))>>),
     StartTag(S("a"), <<Attr(S("href"), S("/tag/rock"))>>)}
        \cup {Text(t) : t \in TgTexts}

\* the structure of the tags document as far as it has been read, token by
\* token: the list the position lies in ("" outside any list, "other" in a
\* list without a target class), the target lists opened so far, the texts
\* of the marked links of each target list in document order, whether the
\* last token opened a marked link of a target list (its text is due), and
\* whether the document is regular: no list opens inside a list, no target
\* class opens twice, every marked link of a target list is directly
\* followed by its text
DocStart ==
    [in |-> "", opened |-> {}, tags |-> <<>>, similar |-> <<>>,
     due |-> FALSE, regular |-> TRUE]

\* the value of attribute key of a tag (<<>> when absent)
AttrOf(tok, key) ==
    LET js == {j \in 1..Len(tok.attrs) : tok.attrs[j].key = key} IN
    IF js = {} THEN <<>> ELSE tok.attrs[CHOOSE j \in js : \A j2 \in js : j <= j2].val

\* the kind of list an <ol> start tag opens
ListKind(tok) ==
    CASE Contains(AttrOf(tok, S("class")), S("big-tags")) -> "big-tags"
      [] Contains(AttrOf(tok, S("class")), S("similar-items-sidebar")) ->
            "similar-items-sidebar"
      [] OTHER -> "other"

\* the document structure after one more token
DocRead(d, tok) ==
    LET targets == {"big-tags", "similar-items-sidebar"}
        d0 == [d EXCEPT !.due = FALSE,
                        !.regular = @ /\ (d.due => tok.type = "Text")]
    IN
    CASE tok.type = "Text" /\ d.due ->
            IF d.in = "big-tags" THEN [d0 EXCEPT !.tags = Append(@, tok.text)]
            ELSE [d0 EXCEPT !.similar = Append(@, tok.text)]
      [] tok.type = "StartTag" /\ tok.tag = S("ol") ->
            LET k == ListKind(tok) IN
            [d0 EXCEPT !.in = k,
                       !.opened = IF k \in targets THEN @ \cup {k} ELSE @,
                       !.regular = @ /\ d.in = "" /\ k \notin d.opened]
      [] tok.type = "EndTag" /\ tok.tag = S("ol") -> [d0 EXCEPT !.in = ""]
      [] tok.type = "StartTag" /\ tok.tag = S("a") /\ d.in \in targets
           /\ Contains(AttrOf(tok, S("class")), S("link-block-target")) ->
            [d0 EXCEPT !.due = TRUE]
      [] OTHER -> d0

TgInit ==
    /\ tgPc = "start"
    /\ tgLeft = 0
    /\ tgConsumed = 0
    /\ startTags = FALSE
    /\ startSimilar = FALSE
    /\ numEntites = 0
    /\ tgTags = NilList
    /\ tgSimilar = NilList
    /\ tgErr = NoErr
    /\ closedKinds = {}
    /\ tgDoc = DocStart

TgIdle ==
    /\ tgPc = "idle"
    /\ tgLeft = 0
    /\ tgConsumed = 0
    /\ startTags = FALSE
    /\ startSimilar = FALSE
    /\ numEntites = 0
    /\ tgTags = NilList
    /\ tgSimilar = NilList
    /\ tgErr = NoErr
    /\ closedKinds = {}
    /\ tgDoc = DocStart

\* return nil, nil, err
TgFail(err) ==
    /\ tgPc' = "returned"
    /\ tgTags' = NilList
    /\ tgSimilar' = NilList
    /\ tgErr' = err
    /\ UNCHANGED <<tgLeft, tgConsumed, startTags, startSimilar, numEntites,
                   closedKinds, tgDoc>>

\* the entry of readTags up to the token loop: the band name check,
\* http.Get failing or answering with a status and a body of n tokens
TgRequest ==
    /\ tgPc = "start"
    /\ IF bandName = <<>>
       THEN TgFail(ErrTgBandRequired)
       ELSE \E sent \in BOOLEAN :
            IF ~sent
            THEN TgFail(ErrTgHttpGet)
            ELSE \E status \in {StatusOK, StatusNotFound}, n \in 0..MaxTgTokens :
                 IF status # StatusOK
                 THEN TgFail(ErrTgStatus)
                 ELSE /\ tgPc' = "tokens"
                      /\ tgLeft' = n
                      /\ numEntites' = NumEntitesInit
                      /\ tgTags' = List(<<>>)
                      /\ tgSimilar' = List(<<>>)
                      /\ UNCHANGED <<tgConsumed, startTags, startSimilar, tgErr,
                                     closedKinds, tgDoc>>
    /\ UNCHANGED tgOthers

\* AppendLink with the text appended to both lists whatever the section
AppendLinkBoth(st, text) ==
    [st EXCEPT !.tags = List(Append(@.list, text)),
               !.similar = List(Append(@.list, text))]

\* if startTags { tags = append(tags, text) }
\* if startSimilar { similar = append(similar, text) }
AppendLink(st, text) ==
    [st EXCEPT !.tags = IF st.startTags THEN List(Append(@.list, text)) ELSE @,
               !.similar = IF st.startSimilar THEN List(Append(@.list, text)) ELSE @]

\* one iteration of the token loop on token tok, nxt being the token after
\* it: the locals after it, the number of tokens it consumed, whether it
\* leaves the loop (break loop)
TgApply(st, tok, nxt) ==
    LET res(new, used, brk) == [st |-> new, used |-> used, brk |-> brk] IN
    CASE tok.type = "EndTag" /\ (st.startTags \/ st.startSimilar) ->
            LET isOl == ContainsAttr(tok.tag, tok.attrs,
                                     <<TagAttr(S("ol"), <<>>, <<>>)>>) # <<>>
                n1 == IF isOl /\ st.startTags THEN st.numEntites - 1 ELSE st.numEntites
                n2 == IF isOl /\ st.startSimilar THEN n1 - 1 ELSE n1
                new == [st EXCEPT
                          !.numEntites = n2,
                          !.startTags = IF isOl THEN FALSE ELSE @,
                          !.startSimilar = IF isOl THEN FALSE ELSE @,
                          !.closedKinds =
                              @ \cup (IF isOl /\ st.startTags THEN {"big-tags"} ELSE {})
                                \cup (IF isOl /\ st.startSimilar
                                      THEN {"similar-items-sidebar"} ELSE {})]
            IN res(new, 1, n2 = 0)
      [] tok.type = "StartTag" /\ (st.startTags \/ st.startSimilar) ->
            IF ContainsAttr(tok.tag, tok.attrs,
                            <<TagAttr(S("a"), S("class"), <<S("link-block-target")>>)>>) # <<>>
            THEN IF nxt.type # "Text" THEN res(st, 2, FALSE)
                 ELSE res(AppendLink(st, nxt.text), 2, FALSE)
            ELSE res(st, 1, FALSE)
      [] tok.type = "StartTag" /\ ~(st.startTags \/ st.startSimilar) ->
            LET c == ContainsAttr(tok.tag, tok.attrs,
                        <<TagAttr(S("ol"), S("class"),
                                  <<S("big-tags"), S("similar-items-sidebar")>>)>>)
            IN CASE c = S("big-tags") -> res([st EXCEPT !.startTags = TRUE], 1, FALSE)
                 [] c = S("similar-items-sidebar") ->
                      res([st EXCEPT !.startSimilar = TRUE], 1, FALSE)
                 [] OTHER -> res(st, 1, FALSE)
      [] OTHER -> res(st, 1, FALSE)

\* one iteration of the token loop; break loop is followed by
\* return tags, similar, nil (tokenizer.Err() is nil there)
TgStep ==
    /\ tgPc = "tokens"
    /\ tgLeft > 0
    /\ \E tok \in TgTokens, nxt \in IF tgLeft >= 2 THEN TgTokens ELSE {ErrorToken} :
        LET r == TgApply([startTags |-> startTags, startSimilar |-> startSimilar,
                          numEntites |-> numEntites, tags |-> tgTags,
                          similar |-> tgSimilar, closedKinds |-> closedKinds], tok, nxt)
            used == IF r.used > tgLeft THEN tgLeft ELSE r.used
        IN /\ startTags' = r.st.startTags
           /\ startSimilar' = r.st.startSimilar
           /\ numEntites' = r.st.numEntites
           /\ tgTags' = r.st.tags
           /\ tgSimilar' = r.st.similar
           /\ closedKinds' = r.st.closedKinds
           /\ tgLeft' = tgLeft - used
           /\ tgConsumed' = tgConsumed + used
           /\ tgPc' = IF r.brk THEN "returned" ELSE "tokens"
           /\ tgDoc' = IF used = 2 THEN DocRead(DocRead(tgDoc, tok), nxt)
                        ELSE DocRead(tgDoc, tok)
    /\ UNCHANGED tgErr
    /\ UNCHANGED tgOthers

\* the end of the body: io.EOF, or another tokenizer error
TgEnd ==
    /\ tgPc = "tokens"
    /\ tgLeft = 0
    /\ \E eof \in BOOLEAN :
        IF eof
        THEN /\ tgPc' = "returned"
             /\ UNCHANGED <<tgTags, tgSimilar, tgErr, tgLeft, tgConsumed, startTags,
                            startSimilar, numEntites, closedKinds, tgDoc>>
        ELSE TgFail(ErrTgTokenizer)
    /\ UNCHANGED tgOthers

NextTags == TgRequest \/ TgStep \/ TgEnd

\* -------------------------------------------------------------- readWiki
ErrWkBandRequired == [msg |-> "read_wiki: band name is required", page |-> 0]
ErrWkHttpGet == [msg |-> "read_wiki: http_get", page |-> 0]
ErrWkStatus == [msg |-> "read_wiki: status", page |-> 0]
ErrWkTokenizer == [msg |-> "read_wiki: tokenizer", page |-> 0]

\* the tokens a wiki body is made of
WkTexts == {S("Members"), S("Ian"), <<"(", "1987", ")">>, <<" ">>}
WkTokens ==
    {StartTag(S("ul"), <<Attr(S("class"), S("factbox"))>>),
     StartTag(S("ul"), <<>>), EndTag(S("ul")),
     StartTag(S("h4"), <<Attr(S("class"), S("factbox-heading"))>>),
     StartTag(S("div"), <<Attr(S("class"), S("wiki-content"))>>),
     EndTag(S("div")), EndTag(S("p")), StartTag(S("br"), <<>>),
     StartTag(S("a"), <<Attr(S("href"), S("/a"))>>),
     StartTag(S("a"), <<Attr(S("href"), S("/b"))>>),
     OtherToken}
        \cup {Text(t) : t \in WkTexts}

\* strings.Join(l, "")
RECURSIVE Join(_)
Join(l) == IF l = <<>> THEN <<>> ELSE Head(l) \o Join(Tail(l))

\* strings.Split(t, sep) for a one-character sep
RECURSIVE Split(_, _)
Split(t, sep) ==
    LET cuts == {i \in 1..Len(t) : t[i] = sep} IN
    IF cuts = {} THEN <<t>>
    ELSE LET i == CHOOSE c \in cuts : \A c2 \in cuts : c <= c2 IN
         <<SubSeq(t, 1, i - 1)>> \o Split(SubSeq(t, i + 1, Len(t)), sep)

\* fmt.Sprintf(refFormat, txt) for the default format %q
Quote(t) == <<"\"">> \o t \o <<"\"">>

\* the structure of the wiki document as far as it has been read: how many
\* lists are open at the position, counted from the factbox list inwards
\* (0 outside any factbox list); for each display text the target of the
\* first anchor of the biography that carries it (pairs <<text, target>>),
\* anchor being the target of an anchor of the current biography section
\* opened and still without text; whether the last token opened a factbox
\* heading; whether the document is regular: no list opens or closes right
\* after the opening tag of a factbox heading, nor inside the biography
WkDocStart ==
    [depth |-> 0, first |-> {}, anchor |-> <<>>, heading |-> FALSE, regular |-> TRUE]

\* the document structure after one more token, inBio telling whether the
\* token lies in the biography
WkDocRead(d, tok, inBio) ==
    LET isUl == tok.tag = S("ul")
        factbox == Contains(AttrOf(tok, S("class")), S("factbox"))
        depth == CASE tok.type = "StartTag" /\ isUl /\ (factbox \/ d.depth > 0) ->
                         d.depth + 1
                   [] tok.type = "EndTag" /\ isUl /\ d.depth > 0 -> d.depth - 1
                   [] OTHER -> d.depth
        href == AttrOf(tok, S("href"))
        d0 == [d EXCEPT !.depth = depth,
                        !.heading = tok.type = "StartTag" /\ tok.tag = S("h4")
                                      /\ Contains(AttrOf(tok, S("class")),
                                                  S("factbox-heading")),
                        !.regular = @ /\ ~(d.heading /\ isUl) /\ ~(inBio /\ isUl)]
    IN
    CASE inBio /\ tok.type = "StartTag" /\ tok.tag = S("a") /\ href # <<>> ->
            [d0 EXCEPT !.anchor = href]
      [] inBio /\ tok.type = "Text" /\ d.anchor # <<>> ->
            [d0 EXCEPT !.anchor = <<>>,
                       !.first = IF \E p \in @ : p[1] = tok.text THEN @
                                 ELSE @ \cup {<<tok.text, d.anchor>>}]
      [] inBio /\ tok.type = "EndTag" /\ tok.tag = S("div") ->
            [d0 EXCEPT !.anchor = <<>>]
      [] OTHER -> d0

\* the locals of the biography section before its first token
\* (bio, refsSeen, quote, br, txt, ref declared in case "wiki-content")
BioLocals(st) ==
    [st EXCEPT !.bio = <<>>, !.refsSeen = {}, !.quote = FALSE, !.br = FALSE,
               !.ref = <<>>]

WkInit ==
    /\ wkPc = "start"
    /\ wkLeft = 0
    /\ wkTok = NoToken
    /\ startWiki = FALSE
    /\ wikiMembers = <<>>
    /\ wikiBio = <<>>
    /\ wikiRefs = <<>>
    /\ bio = <<>>
    /\ refsSeen = {}
    /\ quote = FALSE
    /\ br = FALSE
    /\ ref = <<>>
    /\ wkNil = TRUE
    /\ wkErr = NoErr
    /\ wkDoc = WkDocStart

WkIdle ==
    /\ wkPc = "idle"
    /\ wkLeft = 0
    /\ wkTok = NoToken
    /\ startWiki = FALSE
    /\ wikiMembers = <<>>
    /\ wikiBio = <<>>
    /\ wikiRefs = <<>>
    /\ bio = <<>>
    /\ refsSeen = {}
    /\ quote = FALSE
    /\ br = FALSE
    /\ ref = <<>>
    /\ wkNil = TRUE
    /\ wkErr = NoErr
    /\ wkDoc = WkDocStart

\* return nil, err
WkFail(err) ==
    /\ wkPc' = "returned"
    /\ wkNil' = TRUE
    /\ wikiMembers' = <<>>
    /\ wikiBio' = <<>>
    /\ wikiRefs' = <<>>
    /\ wkErr' = err
    /\ UNCHANGED <<wkLeft, wkTok, startWiki, bio, refsSeen, quote, br, ref, wkDoc>>

\* the entry of readWiki up to the token loop: the band name check,
\* defaultClient.Do(req) failing or answering with a status and a body of n
\* tokens; wiki = new(Wiki)
WkRequest ==
    /\ wkPc = "start"
    /\ IF bandName = <<>>
       THEN WkFail(ErrWkBandRequired)
       ELSE \E sent \in BOOLEAN :
            IF ~sent
            THEN WkFail(ErrWkHttpGet)
            ELSE \E status \in {StatusOK, StatusNotFound}, n \in 0..MaxWkTokens :
                 IF status # StatusOK
                 THEN WkFail(ErrWkStatus)
                 ELSE /\ wkPc' = "tokens"
                      /\ wkLeft' = n
                      /\ wkNil' = FALSE
                      /\ UNCHANGED <<wkTok, startWiki, wikiMembers, wikiBio, wikiRefs,
                                     bio, refsSeen, quote, br, ref, wkErr, wkDoc>>
    /\ UNCHANGED wkOthers

\* the locals of readWiki as one record, and their assignment
WkLocals ==
    [pc |-> wkPc, startWiki |-> startWiki, members |-> wikiMembers,
     bioOut |-> wikiBio, refs |-> wikiRefs, bio |-> bio, refsSeen |-> refsSeen,
     quote |-> quote, br |-> br, ref |-> ref]
WkSet(st) ==
    /\ wkPc' = st.pc
    /\ startWiki' = st.startWiki
    /\ wikiMembers' = st.members
    /\ wikiBio' = st.bioOut
    /\ wikiRefs' = st.refs
    /\ bio' = st.bio
    /\ refsSeen' = st.refsSeen
    /\ quote' = st.quote
    /\ br' = st.br
    /\ ref' = st.ref

\* one iteration of the outer token loop on token tok, nxt being the token
\* after it: the locals after it and the number of tokens it consumed
WkOuter(st, tok, nxt) ==
    LET one(new) == [st |-> new, used |-> 1]
        c == ContainsAttr(tok.tag, tok.attrs,
                          <<TagAttr(S("ul"), S("class"), <<S("factbox")>>),
                            TagAttr(S("div"), S("class"), <<S("wiki-content")>>),
                            TagAttr(S("h4"), S("class"), <<S("factbox-heading")>>)>>)
    IN
    CASE tok.type = "EndTag" ->
            IF st.startWiki
               /\ ContainsAttr(tok.tag, tok.attrs, <<TagAttr(S("ul"), <<>>, <<>>)>>) # <<>>
            THEN one([st EXCEPT !.startWiki = FALSE])
            ELSE one(st)
      [] tok.type = "StartTag" /\ c = S("factbox") ->
            one([st EXCEPT !.startWiki = TRUE])
      [] tok.type = "StartTag" /\ c = S("factbox-heading") ->
            IF ~st.startWiki THEN one(st)
            ELSE IF nxt.type = "Text" /\ nxt.text = S("Members")
            THEN [st |-> [st EXCEPT !.pc = "members"], used |-> 2]
            ELSE [st |-> st, used |-> 2]
      [] tok.type = "StartTag" /\ c = S("wiki-content") ->
            one(BioLocals([st EXCEPT !.pc = "bio"]))
      [] OTHER -> one(st)

\* one iteration of the loop of the Members section; the scratch variable
\* txt is written before every read and is not kept
WkMember(st, tok) ==
    IF tok.type = "EndTag"
       /\ ContainsAttr(tok.tag, tok.attrs, <<TagAttr(S("ul"), <<>>, <<>>)>>) # <<>>
    THEN [st EXCEPT !.pc = "tokens"]
    ELSE IF tok.type # "Text" THEN st
    ELSE LET t == TrimSpace(tok.text) IN
         IF t = <<>> THEN st
         ELSE IF Head(t) = "(" /\ Len(st.members) > 0
         THEN [st EXCEPT !.members[Len(st.members)].YearsActive = t]
         ELSE [st EXCEPT !.members = Append(@, [Name |-> t, YearsActive |-> <<>>])]

\* the text handling of readbio_loop with the line break put in front of
\* the new fragment
AppendFragmentNewlineLater(s1, txt) ==
    LET frag == IF s1.quote THEN Quote(txt) ELSE txt IN
    [s1 EXCEPT !.bio = Append(@, IF s1.br /\ Len(s1.bio) > 0 THEN <<"\n">> \o frag
                                 ELSE frag),
               !.br = FALSE, !.quote = FALSE, !.ref = <<>>]

\* the end of the text handling of readbio_loop: a pending line break goes
\* to the end of the last fragment of the buffer, the text (quoted after an
\* anchor) is appended, and br, quote and ref are reset
AppendFragment(s1, txt) ==
    LET marked == IF s1.br /\ Len(s1.bio) > 0
                  THEN [s1.bio EXCEPT ![Len(s1.bio)] = @ \o <<"\n">>]
                  ELSE s1.bio
    IN
    [s1 EXCEPT !.bio = Append(marked, IF s1.quote THEN Quote(txt) ELSE txt),
               !.br = FALSE, !.quote = FALSE, !.ref = <<>>]

\* one iteration of the loop of the biography section (readbio_loop)
WkBio(st, tok) ==
    LET c == ContainsAttr(tok.tag, tok.attrs,
                          <<TagAttr(S("p"), <<>>, <<>>), TagAttr(S("div"), <<>>, <<>>),
                            TagAttr(S("br"), <<>>, <<>>), TagAttr(S("a"), <<>>, <<>>)>>)
        hasHref == \E j \in 1..Len(tok.attrs) : tok.attrs[j].key = S("href")
        \* the switch, for the cases that fall through to the text handling
        s1 == CASE c = S("br") -> [st EXCEPT !.br = TRUE]
                [] c = S("a") /\ tok.type = "StartTag" ->
                      [st EXCEPT !.quote = TRUE,
                                 !.ref = IF hasHref THEN AttrOf(tok, S("href")) ELSE @]
                [] OTHER -> st
        isRef == s1.ref # <<>> /\ tok.text \notin s1.refsSeen
    IN
    CASE c = S("div") /\ tok.type = "EndTag" -> BioLocals([st EXCEPT !.pc = "tokens"])
      [] c = S("p") ->
            IF tok.type = "EndTag" /\ Len(st.bio) > 0
            THEN [st EXCEPT !.bioOut = @ \o Split(TrimSpace(Join(st.bio)), "\n"),
                            !.bio = <<>>]
            ELSE st
      [] ~(c = S("div") /\ tok.type = "EndTag") /\ c # S("p")
           /\ (tok.type # "Text" \/ tok.text = <<>>) -> s1
      [] OTHER ->
            AppendFragment(
                [s1 EXCEPT !.refs = IF isRef
                                    THEN Append(@, [Name |-> tok.text,
                                                    Reference |-> s1.ref])
                                    ELSE @,
                           !.refsSeen = IF isRef THEN @ \cup {tok.text} ELSE @],
                tok.text)

\* for tok := tokenizer.Next(); tokenizer.Err() == nil; tok = tokenizer.Next():
\* one iteration of the outer loop; a lookahead past the end of the body
\* reads the error token
WkStep ==
    /\ wkPc = "tokens"
    /\ wkLeft > 0
    /\ \E tok \in WkTokens, nxt \in IF wkLeft >= 2 THEN WkTokens ELSE {ErrorToken} :
        LET r == WkOuter(WkLocals, tok, nxt)
            used == IF r.used > wkLeft THEN wkLeft ELSE r.used
        IN /\ WkSet(r.st)
           /\ wkLeft' = wkLeft - used
           /\ wkDoc' = IF used = 2
                       THEN WkDocRead(WkDocRead(wkDoc, tok, FALSE), nxt, FALSE)
                       ELSE WkDocRead(wkDoc, tok, FALSE)
    /\ UNCHANGED <<wkTok, wkNil, wkErr>>
    /\ UNCHANGED wkOthers

\* for next := tokenizer.Next(); tokenizer.Err() == nil; next = tokenizer.Next():
\* one iteration of the loop of the Members section
WkMemberStep ==
    /\ wkPc = "members"
    /\ wkLeft > 0
    /\ \E tok \in WkTokens :
        /\ WkSet(WkMember(WkLocals, tok))
        /\ wkTok' = tok
        /\ wkDoc' = WkDocRead(wkDoc, tok, FALSE)
    /\ wkLeft' = wkLeft - 1
    /\ UNCHANGED <<wkNil, wkErr>>
    /\ UNCHANGED wkOthers

\* one iteration of readbio_loop
WkBioStep ==
    /\ wkPc = "bio"
    /\ wkLeft > 0
    /\ \E tok \in WkTokens :
        /\ WkSet(WkBio(WkLocals, tok))
        /\ wkTok' = tok
        /\ wkDoc' = WkDocRead(wkDoc, tok, TRUE)
    /\ wkLeft' = wkLeft - 1
    /\ UNCHANGED <<wkNil, wkErr>>
    /\ UNCHANGED wkOthers

\* the end of the body, in whichever loop it is met: the inner loop and the
\* outer loop both end on tokenizer.Err() # nil; io.EOF, or another
\* tokenizer error
WkEnd ==
    /\ wkPc \in {"tokens", "members", "bio"}
    /\ wkLeft = 0
    /\ \E eof \in BOOLEAN :
        IF eof
        THEN /\ wkPc' = "returned"
             /\ bio' = <<>> /\ refsSeen' = {} /\ quote' = FALSE /\ br' = FALSE
             /\ ref' = <<>>
             /\ UNCHANGED <<wkLeft, wkTok, startWiki, wikiMembers, wikiBio, wikiRefs,
                            wkNil, wkErr, wkDoc>>
        ELSE WkFail(ErrWkTokenizer)
    /\ UNCHANGED wkOthers

NextWiki == WkRequest \/ WkStep \/ WkMemberStep \/ WkBioStep \/ WkEnd

\* ------------------------------------------------------ specifications
AsyncIdle ==
    /\ pageCount = 0
    /\ wg = 0
    /\ errC = <<>>
    /\ wpc = <<>>
    /\ wPage = <<>>
    /\ wVal = <<>>
    /\ waiterPc = "idle"
    /\ callerPc = "idle"
    /\ errs = <<>>
    /\ ret = <<>>
    /\ retSize = 0
    /\ asyncRet = NilList
    /\ asyncErr = NoErr
    /\ outCClosed = FALSE
    /\ fetched = <<>>

\* the flags and the site when no collector runs
InputIdle ==
    /\ pages = 0
    /\ offset = 0
    /\ workersNum = 0
    /\ server = <<>>

InitAsync == InputInit /\ AsyncInit /\ SeqIdle /\ CaIdle /\ FlagIdle /\ MainIdle /\ OvIdle /\ TgIdle /\ WkIdle
SpecAsync == InitAsync /\ [][NextAsync]_vars

InitSeq == InputInit /\ SeqInit /\ AsyncIdle /\ CaIdle /\ FlagIdle /\ MainIdle /\ OvIdle /\ TgIdle /\ WkIdle
SpecSeq == InitSeq /\ [][NextSeq]_vars

InitAttr == InputIdle /\ AsyncIdle /\ SeqIdle /\ CaInit /\ FlagIdle /\ MainIdle /\ OvIdle /\ TgIdle /\ WkIdle
SpecAttr == InitAttr /\ [][NextAttr]_vars

\* the run of main: only the -workers flag of the collectors' inputs counts
InitMain ==
    /\ pages = 0
    /\ offset = 0
    /\ workersNum \in 1..MaxWorkers
    /\ server = <<>>
    /\ AsyncIdle /\ SeqIdle /\ CaIdle /\ FlagInit /\ MainInit /\ OvIdle /\ TgIdle /\ WkIdle
SpecMain == InitMain /\ [][NextMain]_vars
\* one call of readOverview: of the command line only the band name counts
InitOverview ==
    /\ bandName \in {<<>>, S("Fugazi")}
    /\ wiki = FALSE /\ tags = FALSE /\ similarArtists = FALSE /\ events = FALSE
    /\ InputIdle /\ AsyncIdle /\ SeqIdle /\ CaIdle /\ MainIdle /\ OvInit /\ TgIdle /\ WkIdle
SpecOverview == InitOverview /\ [][NextOverview]_vars

\* one call of readTags
InitTags ==
    /\ bandName \in {<<>>, S("Fugazi")}
    /\ wiki = FALSE /\ tags = FALSE /\ similarArtists = FALSE /\ events = FALSE
    /\ InputIdle /\ AsyncIdle /\ SeqIdle /\ CaIdle /\ MainIdle /\ OvIdle /\ TgInit /\ WkIdle
SpecTags == InitTags /\ [][NextTags]_vars

\* one call of readWiki
InitWiki ==
    /\ bandName \in {<<>>, S("Fugazi")}
    /\ wiki = FALSE /\ tags = FALSE /\ similarArtists = FALSE /\ events = FALSE
    /\ InputIdle /\ AsyncIdle /\ SeqIdle /\ CaIdle /\ MainIdle /\ OvIdle /\ TgIdle /\ WkInit
SpecWiki == InitWiki /\ [][NextWiki]_vars

\* fairness of the Go scheduler: a runnable goroutine eventually runs, a
\* fetch returns, a blocked channel operation is served once its peer is ready
\* (senders blocked on a full channel are queued first-in first-out)
FairAsync ==
    /\ \A w \in 1..MaxWorkers :
        /\ WF_vars(w \in Workers /\ WorkerClaim(w))
        /\ WF_vars(w \in Workers /\ WorkerFetch(w))
        /\ SF_vars(w \in Workers /\ WorkerSendErr(w))
        /\ WF_vars(w \in Workers /\ WorkerExit(w))
        /\ WF_vars(w \in Workers /\ CallerRecvOut(w))
    /\ WF_vars(WaiterWait)
    /\ WF_vars(CallerRecvDone)
    /\ WF_vars(CallerRecvErr)
    /\ WF_vars(CallerReturn)
FairSpecAsync == InitAsync /\ [][NextAsync]_vars /\ FairAsync

\* ------------------------------------------------ claims: the collectors
\* the items the site serves on page n
ServedItems(n) ==
    IF server[n].kind = "ok" THEN [i \in 1..server[n].n |-> Artist(n, i)] ELSE <<>>

\* the items served on pages lo..hi, page after page
RECURSIVE ConcatServed(_, _)
ConcatServed(lo, hi) ==
    IF lo > hi THEN <<>> ELSE ServedItems(lo) \o ConcatServed(lo + 1, hi)

\* the items of page n that reached the caller: those the site serves, once
\* the page has been fetched
PageItems(n) ==
    IF fetched[n] > 0 /\ server[n].kind = "ok"
    THEN [i \in 1..server[n].n |-> Artist(n, i)]
    ELSE <<>>

\* the items of pages lo..hi, page after page
RECURSIVE ConcatPages(_, _)
ConcatPages(lo, hi) ==
    IF lo > hi THEN <<>> ELSE PageItems(lo) \o ConcatPages(lo + 1, hi)

\* l with every repeated entry dropped, first occurrences kept
RECURSIVE Dedup(_)
Dedup(l) ==
    IF l = <<>> THEN <<>>
    ELSE LET front == Dedup(SubSeq(l, 1, Len(l) - 1)) IN
         IF \E i \in 1..Len(front) : front[i] = l[Len(l)] THEN front
         ELSE Append(front, l[Len(l)])

\* some fetch of the concurrent call has returned an error
SomeFetchFailed ==
    \E n \in DOMAIN fetched : fetched[n] > 0 /\ server[n].kind = "error"

\* C1: in concurrent collection with more than one worker, a call during
\* which at least one page fetch returned an error returns an error and a
\* nil list, however many pages succeeded.
C1_ErrorFailsCall ==
    (callerPc = "returned" /\ workersNum > 1 /\ SomeFetchFailed)
        => (asyncErr # NoErr /\ asyncRet = NilList)

\* the site lists exactly L pages, each full but possibly the last, and
\* answers every later page number with the overflow redirect
TrueListing(L) ==
    \A n \in 1..(pages + offset) :
        IF n <= L
        THEN server[n].kind = "ok" /\ (n < L => server[n].n = pageSize)
        ELSE server[n].kind = "redirect"

\* C2: for a listing of fewer than P pages and no fetch error, concurrent
\* collection returns the same ordered list, duplicates removed, as
\* sequential collection with the same P and O.
C2_AsyncEqualsSeq ==
    (callerPc = "returned" /\ \E L \in 0..(pages - 1) : TrueListing(L))
        => /\ asyncErr = NoErr
           /\ Dedup(asyncRet.list) = Dedup(ReadSimilarArtists(server, pages, offset).list)

\* C3: a successful concurrent call (every fetched page held 1..pageSize
\* items or was the overflow result) returns exactly the items of the
\* delivered pages, in page order and document order, with no placeholder
\* and no item lost.
C3_PageOrderNoHoles ==
    (callerPc = "returned" /\ asyncErr = NoErr /\ ~SomeFetchFailed)
        => asyncRet.list = ConcatPages(1, pages + offset)

\* C4: under fair scheduling the concurrent call eventually returns.
C4_CallReturns == <>(callerPc = "returned")
\* C5: in sequential collection a page whose fetch or parse fails is the
\* last page fetched, and the call has returned that error with a nil list:
\* no later page is fetched and the items of earlier pages are not returned.
C5_SeqFailFast ==
    /\ \A k \in 1..Len(seqFetched) :
          server[seqFetched[k]].kind = "error"
            => /\ k = Len(seqFetched)
               /\ seqPc = "returned"
               /\ seqRet = NilList
               /\ seqErr = WrapErr(ReadSimilarArtistsPage(server[seqFetched[k]],
                                                          seqFetched[k]).err)
    /\ seqErr # NoErr
          => /\ Len(seqFetched) > 0
             /\ server[seqFetched[Len(seqFetched)]].kind = "error"

\* C5 witness: page k failed after a page with items and before the last page
C5_Witness ==
    /\ seqPc = "returned"
    /\ seqErr # NoErr
    /\ Len(seqFetched) >= 2
    /\ server[seqFetched[1]].kind = "ok"
    /\ seqFetched[Len(seqFetched)] < pages + offset

\* C6: in sequential collection without errors the pages fetched are
\* O+1, O+2, ... in increasing order, each once, an empty page does not end
\* the loop, and the call returns pages O+1..O+P concatenated in that order.
C6_SeqRangeConcat ==
    /\ Len(seqFetched) <= pages
    /\ \A k \in 1..Len(seqFetched) : seqFetched[k] = offset + k
    /\ (seqPc = "returned" /\ seqErr = NoErr)
          => /\ Len(seqFetched) = pages
             /\ seqRet = List(ConcatServed(offset + 1, offset + pages))

\* C6 witness: a run past an empty page followed by a page with items
C6_Witness ==
    /\ seqPc = "returned"
    /\ seqErr = NoErr
    /\ pages >= 2
    /\ server[offset + 1].kind = "redirect"
    /\ server[offset + 2].kind = "ok"
    /\ Len(seqRet.list) > 0

\* C15: in concurrent collection every non-empty page result handed to the
\* caller has its slot [(n-1)*pageSize, n*pageSize) inside the buffer of
\* pageSize*pages entries, the length used to cut the buffer does not exceed
\* the buffer, and no delivery or return faults.
C15_DeliveryInRange ==
    /\ callerPc # "panic"
    /\ \A w \in Workers :
          wpc[w] = "sendOut" => wPage[w] * pageSize <= pageSize * pages
    /\ retSize <= pageSize * pages

\* the result of the fetch of page n is the empty list without an error
EmptyResult(n) ==
    LET r == ReadSimilarArtistsPage(server[n], n) IN
    r.err = NoErr /\ Len(r.artists.list) = 0

\* C16: in every interleaving no page is fetched twice, two workers never
\* hold the same page number, only page numbers 1..P+O are fetched, the
\* numbers handed out so far are exactly those fetched or being fetched, and
\* once every worker has terminated without any fetch having returned the
\* empty result, every page number in 1..P+O has been fetched exactly once.
C16_EachPageOnce ==
    /\ \A n \in DOMAIN fetched : fetched[n] <= 1
    /\ \A w \in Workers :
          wpc[w] \in {"fetch", "sendErr", "sendOut"} => wPage[w] \in 1..(pages + offset)
    /\ \A w, v \in Workers :
          (w # v /\ wpc[w] = "fetch" /\ wpc[v] = "fetch") => wPage[w] # wPage[v]
    /\ \A n \in DOMAIN fetched :
          n <= pageCount
            <=> (fetched[n] = 1 \/ \E w \in Workers : wpc[w] = "fetch" /\ wPage[w] = n)
    /\ (callerPc # "idle" /\ wg = 0
           /\ \A n \in DOMAIN fetched : fetched[n] > 0 => ~EmptyResult(n))
          => \A n \in 1..(pages + offset) : fetched[n] = 1

\* C16 witness: two workers have terminated after fetching three or more
\* pages between them, none of them empty
C16_Witness ==
    /\ workersNum = 2 /\ wg = 0 /\ pages + offset >= 3
    /\ \A n \in DOMAIN fetched : fetched[n] = 1 /\ ~EmptyResult(n)

C18_OverflowStopsOneWorker ==
    /\ [][\A w \in Workers :
            /\ (wpc[w] = "fetch" /\ wpc'[w] # "fetch" /\ EmptyResult(wPage[w]))
                  => /\ wpc'[w] = "exit"
                     /\ \A v \in Workers \ {w} : wpc'[v] = wpc[v]
                     /\ UNCHANGED <<pageCount, errC, errs, ret, retSize>>
            /\ wpc[w] \in {"exit", "done"}
                  => /\ wpc'[w] \in {"exit", "done"}
                     /\ wPage'[w] = wPage[w]]_vars
    /\ []((callerPc # "idle" /\ wg = 0 /\ \E n \in DOMAIN fetched : fetched[n] = 0)
            => \A w \in Workers : wPage[w] <= pages + offset /\ EmptyResult(wPage[w]))

\* C18 witness: one of two workers ended on the empty result of a page
\* before the last, the other fetched the pages after it up to P+O
C18_Witness ==
    /\ workersNum = 2 /\ wg = 0
    /\ \E w, v \in Workers :
          /\ wPage[w] < pages + offset /\ EmptyResult(wPage[w])
          /\ wPage[v] > pages + offset
    /\ \A n \in DOMAIN fetched : fetched[n] = 1

RuleMatches(tagName, attrs, rule) ==
    /\ rule.tagName = tagName
    /\ \/ rule.attrName = <<>>
       \/ \E j \in 1..Len(attrs) :
            /\ attrs[j].key = rule.attrName
            /\ \/ rule.attrVals = <<>>
               \/ rule.attrVals[1] = Star
               \/ \E k \in 1..Len(rule.attrVals) : Contains(attrs[j].val, rule.attrVals[k])

\* the value a matching rule resolves to
Resolved(tagName, attrs, rule) ==
    IF rule.attrName = <<>> THEN tagName
    ELSE IF rule.attrVals = <<>> THEN rule.attrName
    ELSE LET keyed == {j \in 1..Len(attrs) : attrs[j].key = rule.attrName} IN
         IF rule.attrVals[1] = Star
         THEN attrs[CHOOSE j \in keyed : \A j2 \in keyed : j <= j2].val
         ELSE LET hit(j) == {k \in 1..Len(rule.attrVals) :
                                Contains(attrs[j].val, rule.attrVals[k])}
                  js == {j \in keyed : hit(j) # {}}
                  j0 == CHOOSE j \in js : \A j2 \in js : j <= j2
              IN rule.attrVals[CHOOSE k \in hit(j0) : \A k2 \in hit(j0) : k <= k2]

\* C9: containsAttr returns the resolved value of the first rule, in list
\* order, that matches the tag; a rule that does not match never stops the
\* rules after it; the empty result means that no rule matches.
C9_FirstMatchingRule ==
    caPc = "done"
        => LET matching == {i \in 1..Len(caRules) :
                              RuleMatches(caTagName, caAttrs, caRules[i])} IN
           IF matching = {} THEN caResult = <<>>
           ELSE caResult =
                   Resolved(caTagName, caAttrs,
                            caRules[CHOOSE i \in matching : \A i2 \in matching : i <= i2])
\* ---------------------------------------------------------- claims: main
\* the stages in their fixed order, and whether the command line asks for each
StageOrder == <<"Overview", "Wiki", "Tags", "SimilarArtists", "EventYears">>
Requested(name) ==
    CASE name = "Overview" -> TRUE
      [] name = "Wiki" -> wiki
      [] name = "Tags" -> tags
      [] name = "SimilarArtists" -> similarArtists
      [] name = "EventYears" -> events
ExpectedStages == SelectSeq(StageOrder, Requested)

\* C7: the stages run are a prefix of Overview, Wiki, Tags, SimilarArtists,
\* EventYears restricted to the requested ones; a stage that failed is the
\* last one run, the run has ended and no record is written; a record is
\* written only after every requested stage ran and succeeded.
C7_StagesFailFast ==
    /\ Len(stagesRun) <= Len(ExpectedStages)
    /\ \A k \in 1..Len(stagesRun) :
          /\ stagesRun[k].stage = ExpectedStages[k]
          /\ ~stagesRun[k].ok
                => /\ k = Len(stagesRun)
                   /\ mainPc \in {"exited", "panicked"}
                   /\ ~emitted
    /\ emitted
          => /\ Len(stagesRun) = Len(ExpectedStages)
             /\ \A k \in 1..Len(stagesRun) : stagesRun[k].ok

\* C7 witness: Tags failed after Overview and Wiki succeeded, with both
\* later stages requested
C7_Witness ==
    /\ wiki /\ tags /\ similarArtists /\ events
    /\ Len(stagesRun) = 3
    /\ stagesRun[2].ok
    /\ ~stagesRun[3].ok
    /\ mainPc = "exited"
\* -------------------------------------------------- claims: readOverview
\* C8: when the overview fetch answers 404, readOverview returns the
\* not-found error and a nil aggregate without processing any token; no
\* other status yields the not-found error.
C8_NotFound ==
    /\ ovStatus = StatusNotFound
          => /\ ovPc = "returned"
             /\ ovErr = ErrNotFound
             /\ ovRet.isNil
             /\ ovConsumed = 0
    /\ ovErr = ErrNotFound => ovStatus = StatusNotFound
    /\ (ovPc = "returned" /\ ovStatus \notin {0, StatusOK, StatusNotFound})
          => ovErr \notin {NoErr, ErrNotFound}

\* C8 witness: a call that was answered 404 has returned
C8_Witness == ovPc = "returned" /\ ovStatus = StatusNotFound /\ bandName # <<>>

\* the loop body has just run on a statistics tag (an abbr start tag with a
\* title attribute) outside the metadata block, the label being label
StatRead(label) ==
    /\ ovPc = "tokens" /\ ovConsumed' > ovConsumed
    /\ ~startMetadata
    /\ intAbbr = label
    /\ ovTok'.type = "StartTag" /\ ovTok'.tag = S("abbr")
    /\ \E j \in 1..Len(ovTok'.attrs) : ovTok'.attrs[j].key = S("title")

\* the integer a tooltip stands for: its decimal value once the grouping
\* commas are taken out, 0 when what is left is not an integer
TooltipValue(t) ==
    LET stripped == SelectSeq(t, LAMBDA c : c # ",") IN
    IF stripped # <<>> /\ \A i \in 1..Len(stripped) : IsDigit(stripped[i])
    THEN DecVal(stripped) ELSE 0

\* C14: a statistics tag read after the label "Scrobbles" (resp.
\* "Listeners") sets the scrobble (resp. listener) count to the integer
\* value of its tooltip with the grouping commas removed ("1,234" gives
\* 1234), to zero when the stripped tooltip is not an integer, and leaves
\* the other count unchanged.
C14_CountFromTooltip ==
    [][/\ StatRead(S("Scrobbles"))
            => /\ ovRet'.Scrobbles = TooltipValue(AttrOf(ovTok', S("title")))
               /\ ovRet'.Listeners = ovRet.Listeners
               /\ AttrOf(ovTok', S("title")) = <<"1", ",", "2", "3", "4">>
                     => ovRet'.Scrobbles = 1234
       /\ StatRead(S("Listeners"))
            => /\ ovRet'.Listeners = TooltipValue(AttrOf(ovTok', S("title")))
               /\ ovRet'.Scrobbles = ovRet.Scrobbles
               /\ AttrOf(ovTok', S("title")) = <<"1", ",", "2", "3", "4">>
                     => ovRet'.Listeners = 1234]_vars

\* ------------------------------------------------------ claims: readTags
\* C10: once the big-tags list and the similar-items sidebar list have both
\* been opened and closed, readTags consumes no further token and nothing
\* is added to either output list.
C10_StopsAfterBothLists ==
    [][closedKinds = {"big-tags", "similar-items-sidebar"}
         => /\ tgConsumed' = tgConsumed
            /\ Len(tgTags'.list) <= Len(tgTags.list)
            /\ Len(tgSimilar'.list) <= Len(tgSimilar.list)]_vars

C12_RefsUnique ==
    /\ \A i, j \in 1..Len(wikiRefs) :
          i # j => wikiRefs[i].Name # wikiRefs[j].Name
    /\ \A i \in 1..Len(wikiRefs) : \A p \in wkDoc.first :
          p[1] = wikiRefs[i].Name => wikiRefs[i].Reference = p[2]

\* the loop of the Members section has just run on a text whose trimmed
\* form starts with "("
ParenRead ==
    /\ wkPc = "members" /\ wkLeft' < wkLeft
    /\ wkTok'.type = "Text"
    /\ TrimSpace(wkTok'.text) # <<>>
    /\ Head(TrimSpace(wkTok'.text)) = "("

\* C13: in the Members section a trimmed text starting with "(" never
\* creates a member: with at least one member it becomes the years-active
\* value of the last member, before any member it is dropped and the member
\* list stays as it is.
C13_ParenFragment ==
    [][ParenRead
         => IF Len(wikiMembers) > 0
            THEN wikiMembers' = [wikiMembers EXCEPT
                                   ![Len(wikiMembers)].YearsActive =
                                       TrimSpace(wkTok'.text)]
            ELSE wikiMembers' = wikiMembers]_vars

\* C20: on a regular document the extractor is in the factbox state, and in
\* the Members section, only while the position lies inside an open factbox
\* list, and a member is added only by a text read inside an open factbox
\* list: after the list has closed a "Members" heading adds no member.
C20_MembersInsideFactbox ==
    /\ []((wkDoc.regular /\ startWiki) => wkDoc.depth > 0)
    /\ []((wkDoc.regular /\ wkPc = "members") => wkDoc.depth > 0)
    /\ [][(wkDoc.regular /\ Len(wikiMembers') > Len(wikiMembers))
            => wkDoc.depth > 0]_vars

\* fragment f of the paragraph buffer is still held after the step: in the
\* buffer (a line break may have been appended to it) or in a line of the
\* bio, surrounding white space aside
FragmentKept(f) ==
    \/ \E k \in 1..Len(bio') : TrimSpace(bio'[k]) = TrimSpace(f)
    \/ \E k \in 1..Len(wikiBio') : Contains(wikiBio'[k], TrimSpace(f))

\* C21: no text fragment accumulated in the biography section is lost: as
\* long as the extractor does not fail, every step keeps each non-blank
\* fragment of the paragraph buffer in the buffer or moves it into the bio,
\* the lines of the bio stay, and a step that leaves the section or returns
\* (the closing tag of the wrapper, the end of the stream) leaves no
\* fragment behind in the buffer without it being in the bio.
C21_NoFragmentLost ==
    [][wkErr' = NoErr
         => /\ \A i \in 1..Len(bio) : TrimSpace(bio[i]) # <<>> => FragmentKept(bio[i])
            /\ Len(wikiBio') >= Len(wikiBio)
            /\ \A k \in 1..Len(wikiBio) : wikiBio'[k] = wikiBio[k]]_vars

\* readbio_loop has just run on the token wkTok'
BioRead == wkPc = "bio" /\ wkLeft' < wkLeft

\* the token is a paragraph closing tag and the buffer is not empty: the
\* strings of lines are appended to the bio and the buffer is reset
ParagraphClosed(lines) ==
    (BioRead /\ wkTok' = EndTag(S("p")) /\ bio # <<>>)
        => /\ wikiBio' = wikiBio \o lines
           /\ bio' = <<>>

\* a non-empty text read with a line break pending and a fragment in the
\* buffer: the newline goes to the end of that fragment, the new fragment is
\* the text as it is or quoted
BreakBetweenFragments ==
    (BioRead /\ wkTok'.type = "Text" /\ wkTok'.text # <<>> /\ br /\ bio # <<>>)
        => /\ Len(bio') = Len(bio) + 1
           /\ \A k \in 1..(Len(bio) - 1) : bio'[k] = bio[k]
           /\ bio'[Len(bio)] = bio[Len(bio)] \o <<"\n">>
           /\ bio'[Len(bio')] \in {wkTok'.text, Quote(wkTok'.text)}

\* with the buffer empty a line break element adds nothing, and neither
\* does a line break pending when the first fragment arrives
BreakOnEmptyBuffer ==
    /\ (BioRead /\ wkTok'.tag = S("br") /\ bio = <<>>)
          => (bio' = <<>> /\ wikiBio' = wikiBio)
    /\ (BioRead /\ wkTok'.type = "Text" /\ wkTok'.text # <<>> /\ bio = <<>>)
          => (bio' \in {<<wkTok'.text>>, <<Quote(wkTok'.text)>>}
                /\ wikiBio' = wikiBio)

\* C22 as stated: closing a paragraph whose buffer is not empty appends the
\* joined fragments of the buffer, split at every newline, to the bio and
\* resets the buffer; a line break between two fragments puts the newline
\* at the end of the earlier one; a line break seen while the buffer is
\* empty adds nothing.
C22_FlushSplitsJoined ==
    [][/\ ParagraphClosed(Split(Join(bio), "\n"))
       /\ BreakBetweenFragments
       /\ BreakOnEmptyBuffer]_vars

\* C22 amended: closing a paragraph whose buffer is not empty appends the
\* joined fragments of the buffer, with the white space at both ends of the
\* joined text removed and then split at every newline, to the bio and
\* resets the buffer; a line break between two fragments puts the newline
\* at the end of the earlier one; a line break seen while the buffer is
\* empty adds nothing.
C22_FlushSplitsTrimmed ==
    [][/\ ParagraphClosed(Split(TrimSpace(Join(bio)), "\n"))
       /\ BreakBetweenFragments
       /\ BreakOnEmptyBuffer]_vars

\* a paragraph closing tag has just flushed a buffer that was not empty,
\* and the bio holds the lines Ian and Members
C22_Witness ==
    /\ wkPc = "bio"
    /\ wkTok = EndTag(S("p"))
    /\ bio = <<>>
    /\ wikiBio = <<S("Ian"), S("Members")>>

\* C23: a worker whose fetch failed puts the error on errC and goes back to
\* claiming the next page number; a worker ends only on a page number past
\* the range or on an empty page, never on a failed fetch; a page fetched
\* while the caller already holds an error still leaves its worker only by
\* the caller's receipt, which counts its entries; and a call that returns
\* with an error noted returns nil and the first error noted.
C23_WorkerSurvivesError ==
    /\ [][\A w \in Workers :
            /\ (wpc[w] = "sendErr" /\ wpc'[w] # "sendErr")
                  => (wpc'[w] = "claim" /\ errC' = Append(errC, wVal[w].err))
            /\ (wpc[w] # "exit" /\ wpc'[w] = "exit")
                  => \/ wpc[w] = "claim" /\ wPage'[w] > pages + offset
                     \/ wpc[w] = "fetch" /\ wVal'[w].err = NoErr
                          /\ Len(wVal'[w].artists.list) = 0
            /\ (Len(errs) > 0 /\ wpc[w] = "sendOut" /\ wpc'[w] # "sendOut")
                  => (wpc'[w] = "claim"
                        /\ retSize' = retSize + Len(wVal[w].artists.list))]_vars
    /\ []((callerPc = "returned" /\ Len(errs) > 0)
            => (asyncRet = NilList /\ asyncErr = WrapErr(errs[1])))

\* one worker alone has failed on page 1, delivered page 2 and failed on
\* page 3: the caller has noted both errors and counted the page, and the
\* call has returned nil
C23_Witness ==
    /\ workersNum = 1
    /\ callerPc = "returned"
    /\ Len(errs) = 2
    /\ errs[1].page = 1
    /\ errs[2].page = 3
    /\ retSize > 0
    /\ asyncRet = NilList
====
